---------------------------- MODULE Spec2Model ----------------------------
(***************************************************************************)
(* Model of easyeda2kicad/easyeda/easyeda_api.py: the EasyedaApi client.   *)
(*                                                                         *)
(* Encoding of Python / JSON values                                        *)
(*   - a JSON object (dict) is a function from key strings to values; the  *)
(*     empty dict {} is the empty function <<>>, which is the only falsy   *)
(*     dict (an empty list or a null response body is as falsy as {} and   *)
(*     is represented by it);                                              *)
(*   - an optional value is a sequence of length <= 1: None is <<>> and a  *)
(*     value v is <<v>>.  A nullable JSON field (`result`, `paramVOList`)  *)
(*     holds such an optional: null is <<>>;                               *)
(*   - a key that is missing from a dict is missing from the function's    *)
(*     domain;                                                             *)
(*   - prices are counted in hundredths (0.42 is 42), weights are the      *)
(*     rationals [n, d] so that the division by 1000 is exact;             *)
(*   - paramCode and str(productId) are sequences of one-character         *)
(*     strings, so that the digit scan and the int()/str() conversions are *)
(*     computed character by character;                                    *)
(*   - a raised exception is the `exc` field of an outcome ("none" when    *)
(*     the call returned).                                                 *)
(* Fields hold a value of the type the upstream contract documents, or are *)
(* missing; null is modelled for `result` and `paramVOList`.               *)
(***************************************************************************)
EXTENDS Integers, Sequences, FiniteSets, TLC

VARIABLES
    op,            \* the public method the caller invoked ("none" when idle)
    pc,            \* position inside the invocation
    lcsc_id,       \* argument of the invocation (part id or asset uuid)
    arg,           \* upstream response to the invocation's first request
    cp_cad_info,   \* get_cad_data_of_component: local cp_cad_info (optional)
    result,        \* get_cad_data_of_component: local result (optional dict)
    lcsc_price,    \* get_cad_data_of_component: local lcsc_price (optional)
    stock_num,     \* get_cad_data_of_component: local stock_num (optional)
    lcsc_details,  \* get_cad_data_of_component: local lcsc_details (optional)
    called,        \* the lookups get_cad_data_of_component has invoked, in order
    ret,           \* value returned by the invocation
    exc,           \* exception that left the invocation ("none" if none)
    requests,      \* HTTP requests issued by the invocation, in order
    logs           \* log records emitted by the invocation, in order

vars == <<op, pc, lcsc_id, arg, cp_cad_info, result, lcsc_price, stock_num,
          lcsc_details, called, ret, exc, requests, logs>>

-----------------------------------------------------------------------------
(* Bounds of the model *)

\* longest `result` list of a prices response
MaxEntries == 2
\* longest paramVOList of a detail response given to get_lcsc_details
MaxParams == 2
\* longest paramVOList of a detail response inside get_cad_data_of_component
MaxAggParams == 1
\* longest body of a 3D-model response, in bytes
MaxBody == 2

-----------------------------------------------------------------------------
(* Python values *)

None == <<>>
Some(v) == <<v>>
EmptyDict == <<>>

\* d.get(k): the optional value under k
Get(d, k) == IF k \in DOMAIN d THEN Some(d[k]) ELSE None

\* d[k] = v on a dict
SetItem(d, k, v) == [x \in DOMAIN d \cup {k} |-> IF x = k THEN v ELSE d[x]]

\* outcome of a call: the value returned or the exception raised, and its logs
Return(v, l) == [ret |-> v, exc |-> "none", logs |-> l]
Raise(e, l) == [ret |-> None, exc |-> e, logs |-> l]

Log(level, text, id) == [level |-> level, text |-> text, id |-> id]
\* logging.debug(f"{api_response}"): the raw payload, no id in the message
DebugPayload == Log("debug", "api_response", "")

\* an optional key of a JSON object: missing, or one of the values V
Opt(k, V) == {EmptyDict} \cup {k :> v : v \in V}

\* sequences over S of length at most n
SeqUpTo(S, n) == UNION {[1..k -> S] : k \in 0..n}

\* transport outcome of one request: the fault raised by requests.get / r.json(),
\* or the decoded JSON body
Faults == {"ConnectionError", "JSONDecodeError"}
Failed(f) == [fault |-> f, json |-> EmptyDict]
Decoded(j) == [fault |-> "none", json |-> j]
Responses(J) == {Failed(f) : f \in Faults} \cup {Decoded(j) : j \in J}

-----------------------------------------------------------------------------
(* Transport context and endpoints *)

headers == {"Accept-Encoding", "Accept", "Content-Type", "User-Agent"}

Request(endpoint, id, hdrs) == [url |-> endpoint, id |-> id, headers |-> hdrs]

HTTP_OK == 200

LcscIds == {"C2040"}
Uuids == {"u1", "u2"}


-----------------------------------------------------------------------------
(* Upstream responses *)

\* payloads of the primary record (`result` of the product endpoint)
PrimaryPayloads == {EmptyDict, "uuid" :> "cad1"}

\* bodies of the product endpoint: any of code, success, result may be missing,
\* result may be null
PrimaryBodies ==
    {c @@ s @@ r : c \in Opt("code", {0, 404}),
                   s \in Opt("success", BOOLEAN),
                   r \in Opt("result", {None} \cup {Some(p) : p \in PrimaryPayloads})}

\* one entry of the prices list: {}, {lcsc: {}} or {lcsc: {price: p}}
PriceEntries ==
    {EmptyDict, "lcsc" :> EmptyDict} \cup {"lcsc" :> ("price" :> p) : p \in {0, 17, 42}}

PriceBodies ==
    {s @@ r : s \in Opt("success", BOOLEAN),
              r \in Opt("result", {None} \cup {Some(l) : l \in SeqUpTo(PriceEntries, MaxEntries)})}

StockResults == {EmptyDict} \cup {"stock_num" :> n : n \in {0, 7}}

StockBodies ==
    {s @@ r : s \in Opt("success", BOOLEAN),
              r \in Opt("result", {None} \cup {Some(d) : d \in StockResults})}

-----------------------------------------------------------------------------
(* get_info_from_easyeda_api *)

\* the failure test of lines 47-49; api_response["success"] raises KeyError when
\* the body has a code but no success
get_info_from_easyeda_api(id, resp) ==
    IF resp.fault # "none" THEN Raise(resp.fault, <<>>)
    ELSE LET api_response == resp.json IN
         IF api_response = EmptyDict THEN Return(EmptyDict, <<DebugPayload>>)
         ELSE IF "code" \in DOMAIN api_response
              THEN IF "success" \notin DOMAIN api_response
                   THEN Raise("KeyError", <<>>)
                   ELSE IF api_response["success"] = FALSE
                        THEN Return(EmptyDict, <<DebugPayload>>)
                        ELSE Return(api_response, <<>>)
              ELSE Return(api_response, <<>>)

-----------------------------------------------------------------------------
(* get_lcsc_price *)

\* result.get("lcsc", {}).get("price")
EntryPrice(entry) ==
    LET lcsc == IF "lcsc" \in DOMAIN entry THEN entry["lcsc"] ELSE EmptyDict
    IN  Get(lcsc, "price")

\* truthiness of an optional number: None and 0 are falsy
TruthyNum(o) == o # None /\ o[1] # 0

\* ScanPrices that lets a later entry's price win
RECURSIVE ScanPrices_Last(_, _)
ScanPrices_Last(results, i) ==
    IF i > Len(results) THEN None
    ELSE LET later == ScanPrices_Last(results, i + 1) IN
         IF later # None THEN later
         ELSE IF TruthyNum(EntryPrice(results[i])) THEN EntryPrice(results[i]) ELSE None

\* the for loop of lines 88-91: the first truthy price, scanning from entry i
RECURSIVE ScanPrices(_, _)
ScanPrices(results, i) ==
    IF i > Len(results) THEN None
    ELSE LET price == EntryPrice(results[i]) IN
         IF TruthyNum(price) THEN price ELSE ScanPrices(results, i + 1)

\* api_response.get("success", False) is False
SuccessIsFalse(api_response) ==
    IF "success" \in DOMAIN api_response THEN api_response["success"] = FALSE ELSE TRUE

PriceFailureLog == DebugPayload
\* NoPriceLog at the level the other lookups use
NoPriceLog_Debug(id) == Log("debug", "No price available on LCSC", id)
NoPriceLog(id) == Log("warning", "No price available on LCSC", id)

get_lcsc_price(id, resp) ==
    IF resp.fault # "none" THEN Raise(resp.fault, <<>>)
    ELSE LET api_response == resp.json IN
         IF api_response = EmptyDict \/ SuccessIsFalse(api_response)
         THEN Return(None, <<PriceFailureLog>>)
         ELSE LET results == IF "result" \in DOMAIN api_response
                             THEN api_response["result"] ELSE Some(<<>>)
              IN  IF results = None
                  THEN Raise("TypeError", <<>>)   \* for result in None
                  ELSE LET price == ScanPrices(results[1], 1) IN
                       IF price # None THEN Return(price, <<>>)
                       ELSE Return(None, <<NoPriceLog(id)>>)

-----------------------------------------------------------------------------
(* get_jlcpcb_stock *)

get_jlcpcb_stock(id, resp) ==
    IF resp.fault # "none" THEN Raise(resp.fault, <<>>)
    ELSE LET api_response == resp.json IN
         IF api_response = EmptyDict \/ SuccessIsFalse(api_response)
         THEN Return(None, <<DebugPayload>>)
         ELSE LET res == IF "result" \in DOMAIN api_response
                         THEN api_response["result"] ELSE Some(EmptyDict)
              IN  IF res = None
                  THEN Raise("AttributeError", <<>>)   \* None.get
                  ELSE LET stock == Get(res[1], "stock_num") IN
                       IF stock = None
                       THEN Return(None, <<Log("debug", "No SMT service available", id)>>)
                       ELSE Return(stock, <<>>)

-----------------------------------------------------------------------------
(* get_lcsc_details *)

DigitChars == <<"0", "1", "2", "3", "4", "5", "6", "7", "8", "9">>
IsDigit(c) == \E n \in 1..Len(DigitChars) : DigitChars[n] = c
DigitVal(c) == (CHOOSE n \in 1..Len(DigitChars) : DigitChars[n] = c) - 1

\* int() of a string of digits, most significant first
RECURSIVE DigitsToInt(_)
DigitsToInt(ds) ==
    IF ds = <<>> THEN 0
    ELSE 10 * DigitsToInt(SubSeq(ds, 1, Len(ds) - 1)) + DigitVal(ds[Len(ds)])

\* str() of a natural number
RECURSIVE IntToDigits(_)
IntToDigits(n) ==
    IF n < 10 THEN <<DigitChars[n + 1]>>
    ELSE Append(IntToDigits(n \div 10), DigitChars[(n % 10) + 1])

\* the greedy match of \d+ that starts at position i of s
RECURSIVE MatchDigits(_, _)
MatchDigits(s, i) ==
    IF i <= Len(s) /\ IsDigit(s[i]) THEN <<s[i]>> \o MatchDigits(s, i + 1) ELSE <<>>

\* re.search(r'\d+', s).group(): the leftmost position where \d+ matches; None
\* when no position matches
RECURSIVE SearchDigits(_, _)
SearchDigits(s, i) ==
    IF i > Len(s) THEN None
    ELSE IF IsDigit(s[i]) THEN Some(MatchDigits(s, i)) ELSE SearchDigits(s, i + 1)

\* int(re.search(r'\d+', param.get("paramCode", "") + "_0").group())
ParamId(param) ==
    LET code == IF "paramCode" \in DOMAIN param THEN param["paramCode"] ELSE <<>>
    IN  DigitsToInt(SearchDigits(code \o <<"_", "0">>, 1)[1])

\* truthiness of an optional string
TruthyStr(o) == o # None /\ o[1] # ""

\* AddParam that keeps the first entry of a name
AddParam_KeepFirst(properties, param) ==
    LET name == Get(param, "paramNameEn")
        value == Get(param, "paramValueEn")
        id_ == ParamId(param)
    IN  IF TruthyStr(name) /\ TruthyStr(value) /\ id_ # 0 /\ name[1] \notin DOMAIN properties
        THEN SetItem(properties, name[1], <<id_, value[1]>>)
        ELSE properties

\* lines 128-132 for one param: properties after the param has been looked at
AddParam(properties, param) ==
    LET name == Get(param, "paramNameEn")
        value == Get(param, "paramValueEn")
        id_ == ParamId(param)
    IN  IF TruthyStr(name) /\ TruthyStr(value) /\ id_ # 0
        THEN SetItem(properties, name[1], <<id_, value[1]>>)
        ELSE properties

\* the loop of lines 126-132 over the first n params
RECURSIVE BuildProperties(_, _)
BuildProperties(params, n) ==
    IF n = 0 THEN EmptyDict
    ELSE AddParam(BuildProperties(params, n - 1), params[n])

\* result.get("paramVOList", []) or []
ParamList(res) ==
    IF "paramVOList" \in DOMAIN res /\ res["paramVOList"] # None
    THEN res["paramVOList"][1] ELSE <<>>

\* numbers of the weight fields: the rational n / d
Num(n, d) == [n |-> n, d |-> d]
NumDiv(x, k) == Num(x.n, x.d * k)

MilligramsPerGram == 1000

\* DerivedWeight without the unit conversion
DerivedWeight_Unconverted(res) == Get(res, "productWeight")

\* result.get("productWeight", None) and (result.get("productWeight", None) / 1000)
DerivedWeight(res) ==
    LET pw == Get(res, "productWeight") IN
    IF pw = None \/ pw[1].n = 0 THEN pw ELSE Some(NumDiv(pw[1], MilligramsPerGram))

\* result.get("weight", <derived weight>)
Weight(res) == IF "weight" \in DOMAIN res THEN Some(res["weight"]) ELSE DerivedWeight(res)

\* result.get("productId") and str(result.get("productId"))
ProductId(res) ==
    LET id == Get(res, "productId") IN
    IF id = None \/ id[1] = 0 THEN id ELSE Some(IntToDigits(id[1]))

\* result.get("pdfUrl", result.get("pdfLinkUrl") or None)
Datasheet(res) ==
    IF "pdfUrl" \in DOMAIN res THEN Some(res["pdfUrl"])
    ELSE IF TruthyStr(Get(res, "pdfLinkUrl")) THEN Get(res, "pdfLinkUrl") ELSE None

LcscDetails(res) ==
    [lcsc_stock |-> Get(res, "stockNumber"),
     product_id |-> ProductId(res),
     parentCategory |-> Get(res, "parentCatalogName"),
     category |-> Get(res, "catalogName"),
     datasheet |-> Datasheet(res),
     product_description |-> Get(res, "productDescEn"),
     product_intro |-> Get(res, "productIntroEn"),
     weight |-> Weight(res),
     properties |-> BuildProperties(ParamList(res), Len(ParamList(res)))]

\* api_response.get("code", 0) != 200
CodeIsNotOk(api_response) ==
    IF "code" \in DOMAIN api_response THEN api_response["code"] # HTTP_OK ELSE TRUE

get_lcsc_details(id, resp) ==
    IF resp.fault # "none" THEN Raise(resp.fault, <<>>)
    ELSE LET api_response == resp.json IN
         IF api_response = EmptyDict \/ CodeIsNotOk(api_response)
         THEN Return(None, <<DebugPayload>>)
         ELSE LET res == IF "result" \in DOMAIN api_response
                         THEN api_response["result"] ELSE None
              IN  IF res = None \/ res = Some(EmptyDict)
                  THEN Return(None, <<Log("debug", "No details available", id)>>)
                  ELSE Return(Some(LcscDetails(res[1])), <<>>)

\* sample paramCode strings: "sd_5", "abc", "x07y2"
ParamCodes == {<<"s", "d", "_", "5">>, <<"a", "b", "c">>, <<"x", "0", "7", "y", "2">>}

ParamEntries ==
    {n @@ v @@ c : n \in Opt("paramNameEn", {"", "Tolerance", "Resistance"}),
                   v \in {"paramValueEn" :> x : x \in {"", "1%"}},
                   c \in Opt("paramCode", ParamCodes)}

\* the other fields of a detail result
DetailBases ==
    { EmptyDict,
      ("stockNumber" :> 120) @@ ("productId" :> 7) @@ ("parentCatalogName" :> "Resistors")
        @@ ("catalogName" :> "Chip Resistor") @@ ("pdfUrl" :> "a.pdf")
        @@ ("pdfLinkUrl" :> "b.pdf") @@ ("productDescEn" :> "desc")
        @@ ("productIntroEn" :> "intro"),
      ("productId" :> 0) @@ ("pdfLinkUrl" :> "") }

\* results of the detail endpoint.  The fields are read independently of each
\* other (lines 127-143), so the results vary the scalar fields together and the
\* parameter list on its own.
DetailResults(maxParams) ==
    {b @@ w @@ pw : b \in DetailBases,
                    w \in Opt("weight", {Num(2, 1)}),
                    pw \in Opt("productWeight", {Num(0, 1), Num(1500, 1)})}
    \cup {"paramVOList" :> pl :
            pl \in {None} \cup {Some(l) : l \in SeqUpTo(ParamEntries, maxParams)}}

\* a body whose code is not 200 is never looked into
DetailBodies(maxParams) ==
    {c @@ r : c \in Opt("code", {404}), r \in Opt("result", {None, Some(EmptyDict)})}
    \cup {("code" :> HTTP_OK) @@ r :
            r \in Opt("result", {None} \cup {Some(d) : d \in DetailResults(maxParams)})}

-----------------------------------------------------------------------------
(* get_raw_3d_model_obj, get_step_3d_model *)

\* bytes of a body: "a", "b" and 0xFF, which no UTF-8 text contains
Bytes == {97, 98, 255}
Chr(b) == IF b = 97 THEN "a" ELSE "b"

AssetResponses ==
    {[fault |-> f, status_code |-> 0, content |-> <<>>] : f \in {"ConnectionError"}}
    \cup {[fault |-> "none", status_code |-> c, content |-> body] :
            c \in {HTTP_OK, 404}, body \in SeqUpTo(Bytes, MaxBody)}

\* r.content.decode()
Decode(content) == [i \in 1..Len(content) |-> Chr(content[i])]
Decodable(content) == \A i \in 1..Len(content) : content[i] < 128

\* the full header set of the JSON lookups
AllHeaders == headers
AssetHeaders == {h \in headers : h = "User-Agent"}

get_raw_3d_model_obj(uuid, resp) ==
    IF resp.fault # "none" THEN Raise(resp.fault, <<>>)
    ELSE IF resp.status_code # HTTP_OK
         THEN Return(None, <<Log("error", "No raw 3D model data found", uuid)>>)
         ELSE IF Decodable(resp.content)
              THEN Return(Some(Decode(resp.content)), <<>>)
              ELSE Raise("UnicodeDecodeError", <<>>)

get_step_3d_model(uuid, resp) ==
    IF resp.fault # "none" THEN Raise(resp.fault, <<>>)
    ELSE IF resp.status_code # HTTP_OK
         THEN Return(None, <<Log("error", "No step 3D model data found", uuid)>>)
         ELSE Return(Some(resp.content), <<>>)

-----------------------------------------------------------------------------
(* What the endpoints may answer *)

PrimaryResponses == Responses(PrimaryBodies)
PriceResponses == Responses(PriceBodies)
StockResponses == Responses(StockBodies)
DetailResponses == Responses(DetailBodies(MaxParams))
AggDetailResponses == Responses(DetailBodies(MaxAggParams))

-----------------------------------------------------------------------------
(* get_cad_data_of_component *)

\* AfterPrimary without the early return of lines 57-58
AfterPrimary_NoShortCircuit(o) ==
    IF o.exc # "none"
    THEN [pc |-> "raised", cp_cad_info |-> None, result |-> None, ret |-> None,
          exc |-> o.exc]
    ELSE [pc |-> "price", cp_cad_info |-> Some(o.ret),
          result |-> IF "result" \in DOMAIN o.ret THEN o.ret["result"] ELSE None,
          ret |-> None, exc |-> "none"]

\* lines 56-59: what the primary lookup's outcome o leaves behind
AfterPrimary(o) ==
    IF o.exc # "none"
    THEN [pc |-> "raised", cp_cad_info |-> None, result |-> None, ret |-> None,
          exc |-> o.exc]
    ELSE IF o.ret = EmptyDict
    THEN [pc |-> "returned", cp_cad_info |-> Some(o.ret), result |-> None,
          ret |-> Some(EmptyDict), exc |-> "none"]
    ELSE IF "result" \notin DOMAIN o.ret
    THEN [pc |-> "raised", cp_cad_info |-> Some(o.ret), result |-> None, ret |-> None,
          exc |-> "KeyError"]
    ELSE [pc |-> "price", cp_cad_info |-> Some(o.ret), result |-> o.ret["result"],
          ret |-> None, exc |-> "none"]

\* Merge that tests the value and never stores it
Merge_Forgets(res, key, value, truthy) == [result |-> res, exc |-> "none"]

\* `if value: result[key] = value`, for a lookup that returned `value`; `truthy`
\* is the truth value of `value`.  Assigning into a null result raises TypeError.
Merge(res, key, value, truthy) ==
    IF ~truthy THEN [result |-> res, exc |-> "none"]
    ELSE IF res = None THEN [result |-> res, exc |-> "TypeError"]
    ELSE [result |-> Some(SetItem(res[1], key, value[1])), exc |-> "none"]

\* AfterLookup that returns what it has as soon as a lookup returns None
AfterLookup_AbortsOnNone(res, o, key, truthy, next) ==
    IF o.exc # "none"
    THEN [pc |-> "raised", result |-> res, value |-> None, exc |-> o.exc]
    ELSE IF o.ret = None
    THEN [pc |-> "returned", result |-> res, value |-> None, exc |-> "none"]
    ELSE IF res = None
    THEN [pc |-> "raised", result |-> res, value |-> o.ret, exc |-> "TypeError"]
    ELSE [pc |-> next,
          result |-> IF truthy THEN Some(SetItem(res[1], key, o.ret[1])) ELSE res,
          value |-> o.ret, exc |-> "none"]

\* one enrichment step (lines 62-64, 67-69, 71-73): the lookup's outcome o is
\* merged under key, and control moves to `next` unless an exception leaves
AfterLookup(res, o, key, truthy, next) ==
    IF o.exc # "none"
    THEN [pc |-> "raised", result |-> res, value |-> None, exc |-> o.exc]
    ELSE LET m == Merge(res, key, o.ret, truthy) IN
         [pc |-> IF m.exc = "none" THEN next ELSE "raised",
          result |-> m.result, value |-> o.ret, exc |-> m.exc]

\* an instance of LcscDetails is truthy: the dataclass defines no __bool__ or __len__
TruthyObj(o) == o # None

NoResponse == Decoded(EmptyDict)

Init ==
    /\ op = "none"
    /\ pc = "idle"
    /\ lcsc_id = ""
    /\ arg = NoResponse
    /\ cp_cad_info = None
    /\ result = None
    /\ lcsc_price = None
    /\ stock_num = None
    /\ lcsc_details = None
    /\ called = <<>>
    /\ ret = None
    /\ exc = "none"
    /\ requests = <<>>
    /\ logs = <<>>

\* get_cad_data_of_component is invoked and runs up to the primary lookup's outcome
CadPrimary ==
    /\ pc = "idle"
    /\ \E id \in LcscIds, resp \in PrimaryResponses :
        LET a == AfterPrimary(get_info_from_easyeda_api(id, resp)) IN
        /\ op' = "get_cad_data_of_component"
        /\ lcsc_id' = id
        /\ arg' = resp
        /\ requests' = <<Request("API_ENDPOINT", id, headers)>>
        /\ logs' = get_info_from_easyeda_api(id, resp).logs
        /\ called' = <<"get_info_from_easyeda_api">>
        /\ pc' = a.pc
        /\ cp_cad_info' = a.cp_cad_info
        /\ result' = a.result
        /\ ret' = a.ret
        /\ exc' = a.exc
        /\ UNCHANGED <<lcsc_price, stock_num, lcsc_details>>

CadPrice ==
    /\ op = "get_cad_data_of_component"
    /\ pc = "price"
    /\ \E resp \in PriceResponses :
        LET o == get_lcsc_price(lcsc_id, resp)
            a == AfterLookup(result, o, "lcsc_price", TruthyNum(o.ret), "stock")
        IN
        /\ requests' = Append(requests, Request("LCSC_PRICES_API_ENDPOINT", lcsc_id, headers))
        /\ logs' = logs \o o.logs
        /\ called' = Append(called, "get_lcsc_price")
        /\ pc' = a.pc
        /\ result' = a.result
        /\ lcsc_price' = a.value
        /\ exc' = a.exc
        /\ UNCHANGED <<op, lcsc_id, arg, cp_cad_info, stock_num, lcsc_details, ret>>

CadStock ==
    /\ op = "get_cad_data_of_component"
    /\ pc = "stock"
    /\ \E resp \in StockResponses :
        LET o == get_jlcpcb_stock(lcsc_id, resp)
            a == AfterLookup(result, o, "jlc_stock", TruthyNum(o.ret), "details")
        IN
        /\ requests' = Append(requests, Request("JLCPCB_STOCK_API_ENDPOINT", lcsc_id, headers))
        /\ logs' = logs \o o.logs
        /\ called' = Append(called, "get_jlcpcb_stock")
        /\ pc' = a.pc
        /\ result' = a.result
        /\ stock_num' = a.value
        /\ exc' = a.exc
        /\ UNCHANGED <<op, lcsc_id, arg, cp_cad_info, lcsc_price, lcsc_details, ret>>

\* the last lookup, and `return result`
CadDetails ==
    /\ op = "get_cad_data_of_component"
    /\ pc = "details"
    /\ \E resp \in AggDetailResponses :
        LET o == get_lcsc_details(lcsc_id, resp)
            a == AfterLookup(result, o, "lcsc_details", TruthyObj(o.ret), "returned")
        IN
        /\ requests' = Append(requests, Request("LCSC_DETAILS_API_ENDPOINT", lcsc_id, headers))
        /\ logs' = logs \o o.logs
        /\ called' = Append(called, "get_lcsc_details")
        /\ pc' = a.pc
        /\ result' = a.result
        /\ lcsc_details' = a.value
        /\ exc' = a.exc
        /\ ret' = IF a.pc = "returned" THEN a.result ELSE None
        /\ UNCHANGED <<op, lcsc_id, arg, cp_cad_info, lcsc_price, stock_num>>

-----------------------------------------------------------------------------
(* The lookups invoked on their own *)

\* a public method other than get_cad_data_of_component is invoked with argument
\* id, its one request is answered by resp, and o is its outcome
Invoke(name, endpoint, id, resp, hdrs, o) ==
    /\ op' = name
    /\ lcsc_id' = id
    /\ arg' = resp
    /\ requests' = <<Request(endpoint, id, hdrs)>>
    /\ logs' = o.logs
    /\ pc' = IF o.exc = "none" THEN "returned" ELSE "raised"
    /\ ret' = o.ret
    /\ exc' = o.exc
    /\ UNCHANGED <<cp_cad_info, result, lcsc_price, stock_num, lcsc_details, called>>

CallInfo ==
    /\ pc = "idle"
    /\ \E id \in LcscIds, resp \in PrimaryResponses :
        LET o == get_info_from_easyeda_api(id, resp) IN
        Invoke("get_info_from_easyeda_api", "API_ENDPOINT", id, resp, headers,
               [o EXCEPT !.ret = IF o.exc = "none" THEN Some(o.ret) ELSE None])

CallPrice ==
    /\ pc = "idle"
    /\ \E id \in LcscIds, resp \in PriceResponses :
        Invoke("get_lcsc_price", "LCSC_PRICES_API_ENDPOINT", id, resp, headers,
               get_lcsc_price(id, resp))

CallStock ==
    /\ pc = "idle"
    /\ \E id \in LcscIds, resp \in StockResponses :
        Invoke("get_jlcpcb_stock", "JLCPCB_STOCK_API_ENDPOINT", id, resp, headers,
               get_jlcpcb_stock(id, resp))

CallDetails ==
    /\ pc = "idle"
    /\ \E id \in LcscIds, resp \in DetailResponses :
        Invoke("get_lcsc_details", "LCSC_DETAILS_API_ENDPOINT", id, resp, headers,
               get_lcsc_details(id, resp))

CallRaw3d ==
    /\ pc = "idle"
    /\ \E uuid \in Uuids, resp \in AssetResponses :
        Invoke("get_raw_3d_model_obj", "ENDPOINT_3D_MODEL", uuid, resp, AssetHeaders,
               get_raw_3d_model_obj(uuid, resp))

CallStep3d ==
    /\ pc = "idle"
    /\ \E uuid \in Uuids, resp \in AssetResponses :
        Invoke("get_step_3d_model", "ENDPOINT_3D_MODEL_STEP", uuid, resp, AssetHeaders,
               get_step_3d_model(uuid, resp))

\* the invocation has returned or raised: its locals are gone and the client,
\* which keeps no state between calls, can be invoked again
Finish ==
    /\ pc \in {"returned", "raised"}
    /\ op' = "none"
    /\ pc' = "idle"
    /\ lcsc_id' = ""
    /\ arg' = NoResponse
    /\ cp_cad_info' = None
    /\ result' = None
    /\ lcsc_price' = None
    /\ stock_num' = None
    /\ lcsc_details' = None
    /\ called' = <<>>
    /\ ret' = None
    /\ exc' = "none"
    /\ requests' = <<>>
    /\ logs' = <<>>

Next ==
    \/ CadPrimary
    \/ CadPrice
    \/ CadStock
    \/ CadDetails
    \/ CallInfo
    \/ CallPrice
    \/ CallStock
    \/ CallDetails
    \/ CallRaw3d
    \/ CallStep3d
    \/ Finish

Spec == Init /\ [][Next]_vars

-----------------------------------------------------------------------------
(* Properties *)

IsCad == op = "get_cad_data_of_component"
Terminal == pc \in {"returned", "raised"}
AllLookups ==
    <<"get_info_from_easyeda_api", "get_lcsc_price", "get_jlcpcb_stock", "get_lcsc_details">>
Urls == [i \in DOMAIN requests |-> requests[i].url]

\* the aggregation's primary lookup returned a response that carries a record
HasPrimaryRecord ==
    /\ IsCad
    /\ cp_cad_info # None
    /\ cp_cad_info # Some(EmptyDict)
    /\ "result" \in DOMAIN cp_cad_info[1]
    /\ cp_cad_info[1]["result"] # None

PrimaryRecord == cp_cad_info[1]["result"][1]

\* the enrichment keys the aggregation merges: those whose lookup returned a
\* truthy value
MergedKeys ==
    {k \in {"lcsc_price"} : lcsc_price # None /\ lcsc_price # Some(0)}
    \cup {k \in {"jlc_stock"} : stock_num # None /\ stock_num # Some(0)}
    \cup {k \in {"lcsc_details"} : lcsc_details # None}

EnrichmentValue(k) ==
    IF k = "lcsc_price" THEN lcsc_price[1]
    ELSE IF k = "jlc_stock" THEN stock_num[1] ELSE lcsc_details[1]

\* C1: when the primary lookup of get_cad_data_of_component yields {}, the
\* invocation returns {} and its only request is the one to the product
\* endpoint: no price, stock or detail lookup is invoked.
C1_ShortCircuit ==
    (IsCad /\ cp_cad_info = Some(EmptyDict)) =>
        /\ pc = "returned"
        /\ ret = Some(EmptyDict)
        /\ called = <<"get_info_from_easyeda_api">>
        /\ Urls = <<"API_ENDPOINT">>

C1_Witness ==
    /\ IsCad
    /\ cp_cad_info = Some(EmptyDict)
    /\ pc = "returned"
    /\ arg.fault = "none"
    /\ arg.json # EmptyDict

\* C2, as the specification states it: after a successful primary lookup the returned mapping has
\* lcsc_price, jlc_stock, lcsc_details exactly for the lookups that returned a
\* value other than None, with that value, and keeps the primary payload.
C2_KeysIffPresent ==
    (HasPrimaryRecord /\ pc = "returned") =>
        /\ ret # None
        /\ ("lcsc_price" \in DOMAIN ret[1]) <=> (lcsc_price # None)
        /\ ("jlc_stock" \in DOMAIN ret[1]) <=> (stock_num # None)
        /\ ("lcsc_details" \in DOMAIN ret[1]) <=> (lcsc_details # None)
        /\ \A k \in MergedKeys : ret[1][k] = EnrichmentValue(k)
        /\ \A k \in DOMAIN PrimaryRecord : k \in DOMAIN ret[1] /\ ret[1][k] = PrimaryRecord[k]

FlagsFailure(j) == "success" \in DOMAIN j /\ j["success"] = FALSE
LacksResult(j) == "result" \notin DOMAIN j \/ j["result"] = None
NoDataPrimary(j) ==
    \/ j = EmptyDict
    \/ FlagsFailure(j)
    \/ ("code" \in DOMAIN j /\ j["code"] # 0)
    \/ LacksResult(j)
NoDataEnrichment(j) == j = EmptyDict \/ FlagsFailure(j) \/ LacksResult(j)
NoDataDetails(j) ==
    \/ j = EmptyDict
    \/ ("code" \in DOMAIN j /\ j["code"] # HTTP_OK)
    \/ LacksResult(j)

\* C4, as the specification states it: a decoded response that indicates no data makes the primary
\* lookup and the aggregation return {} and the enrichment lookups return None;
\* none of them raises.
C4_NotFoundIsValue ==
    (Terminal /\ arg.fault = "none") =>
        /\ (op \in {"get_info_from_easyeda_api", "get_cad_data_of_component"}
              /\ NoDataPrimary(arg.json))
           => (pc = "returned" /\ ret = Some(EmptyDict))
        /\ (op \in {"get_lcsc_price", "get_jlcpcb_stock"} /\ NoDataEnrichment(arg.json))
           => (pc = "returned" /\ ret = None)
        /\ (op = "get_lcsc_details" /\ NoDataDetails(arg.json))
           => (pc = "returned" /\ ret = None)

NonEmptyRecord(r) == r # None /\ r # Some(EmptyDict)

\* C5, as the specification states it: the record get_cad_data_of_component returns is non-empty
\* iff the primary lookup returned a non-empty response.
C5_NonEmptyIffPrimary ==
    (IsCad /\ pc = "returned") => (NonEmptyRecord(ret) <=> cp_cad_info # Some(EmptyDict))

\* C5, as the code has it: get_cad_data_of_component returns {} when the primary lookup
\* returned {}; when the primary lookup returned a response, the returned record
\* is non-empty iff the response's result payload is non-empty or an enrichment
\* lookup returned a truthy value.
C5_EmptyIffNothingToReturn ==
    (IsCad /\ pc = "returned") =>
        /\ cp_cad_info # None
        /\ cp_cad_info = Some(EmptyDict) => ret = Some(EmptyDict)
        /\ cp_cad_info # Some(EmptyDict) =>
              (NonEmptyRecord(ret) <=>
                  \/ (HasPrimaryRecord /\ PrimaryRecord # EmptyDict)
                  \/ MergedKeys # {})

\* the primary response carried the empty payload and only the price made the
\* returned record non-empty
C5_Witness ==
    /\ HasPrimaryRecord
    /\ pc = "returned"
    /\ PrimaryRecord = EmptyDict
    /\ MergedKeys = {"lcsc_price"}
    /\ NonEmptyRecord(ret)

\* a prices body with success: true and a result list
HasPriceList(a) ==
    /\ a.fault = "none"
    /\ "success" \in DOMAIN a.json
    /\ a.json["success"] = TRUE
    /\ "result" \in DOMAIN a.json
    /\ a.json["result"] # None
PriceList == arg.json["result"][1]
HasPrice(e) == "lcsc" \in DOMAIN e /\ "price" \in DOMAIN e["lcsc"] /\ e["lcsc"]["price"] # 0

\* C6: on a prices response with success: true and a result list,
\* get_lcsc_price returns the lcsc.price of the first entry, in list order, that
\* has a non-zero price, whatever the entries before it look like, and None when
\* no entry has one.
C6_FirstPriceWins ==
    (op = "get_lcsc_price" /\ Terminal /\ HasPriceList(arg)) =>
        /\ pc = "returned"
        /\ \/ \E i \in DOMAIN PriceList :
                /\ HasPrice(PriceList[i])
                /\ \A j \in 1..(i - 1) : ~HasPrice(PriceList[j])
                /\ ret = Some(PriceList[i]["lcsc"]["price"])
           \/ /\ \A i \in DOMAIN PriceList : ~HasPrice(PriceList[i])
              /\ ret = None

\* the list [{lcsc: {}}, {lcsc: {price: 0.42}}] yields 0.42
C6_Witness ==
    /\ op = "get_lcsc_price"
    /\ pc = "returned"
    /\ HasPriceList(arg)
    /\ PriceList = <<"lcsc" :> EmptyDict, "lcsc" :> ("price" :> 42)>>
    /\ ret = Some(42)

HasWarning == \E i \in DOMAIN logs : logs[i].level = "warning"

BuiltDetails == op = "get_lcsc_details" /\ pc = "returned" /\ ret # None
DetailResult == arg.json["result"][1]
DetailParams ==
    IF "paramVOList" \in DOMAIN DetailResult /\ DetailResult["paramVOList"] # None
    THEN DetailResult["paramVOList"][1] ELSE <<>>

RECURSIVE Pow10(_)
Pow10(k) == IF k = 0 THEN 1 ELSE 10 * Pow10(k - 1)

\* the number written by the digits of c at positions a..b
RECURSIVE Written(_, _, _)
Written(c, a, b) ==
    IF a > b THEN 0 ELSE DigitVal(c[a]) * Pow10(b - a) + Written(c, a + 1, b)

\* the integer of the first run of digits of a paramCode, 0 when it has none
FirstRunValue(c) ==
    IF \A i \in DOMAIN c : ~IsDigit(c[i]) THEN 0
    ELSE LET a == CHOOSE i \in DOMAIN c :
                     IsDigit(c[i]) /\ \A j \in 1..(i - 1) : ~IsDigit(c[j])
             b == CHOOSE i \in a..Len(c) :
                     /\ \A j \in a..i : IsDigit(c[j])
                     /\ (i = Len(c) \/ ~IsDigit(c[i + 1]))
         IN  Written(c, a, b)

CodeOf(e) == IF "paramCode" \in DOMAIN e THEN e["paramCode"] ELSE <<>>
Kept(e) ==
    /\ "paramNameEn" \in DOMAIN e /\ e["paramNameEn"] # ""
    /\ "paramValueEn" \in DOMAIN e /\ e["paramValueEn"] # ""
    /\ FirstRunValue(CodeOf(e)) # 0

\* C8: the properties of the LcscDetails that get_lcsc_details builds map
\* name -> (id, value) exactly for the entries of paramVOList (none when the
\* list is absent or null) with a non-empty paramNameEn, a non-empty
\* paramValueEn and a non-zero id, the id being the integer of the first run of
\* digits of paramCode and 0 without digits; of the kept entries that share a
\* name the last one in list order is the one in the mapping.
C8_PropertiesOfKeptParams ==
    BuiltDetails =>
        LET props == ret[1].properties
            keptAt == {i \in DOMAIN DetailParams : Kept(DetailParams[i])}
        IN  /\ DOMAIN props = {DetailParams[i]["paramNameEn"] : i \in keptAt}
            /\ \A i \in keptAt :
                  (\A j \in keptAt :
                      DetailParams[j]["paramNameEn"] = DetailParams[i]["paramNameEn"] => j <= i)
                  => props[DetailParams[i]["paramNameEn"]]
                       = <<FirstRunValue(CodeOf(DetailParams[i])),
                           DetailParams[i]["paramValueEn"]>>

\* two kept entries named Tolerance: the later one, with paramCode "sd_5", is
\* the one in the mapping
C8_Witness ==
    /\ BuiltDetails
    /\ Len(DetailParams) = 2
    /\ Kept(DetailParams[1])
    /\ DetailParams[1]["paramNameEn"] = "Tolerance"
    /\ CodeOf(DetailParams[1]) = <<"x", "0", "7", "y", "2">>
    /\ DetailParams[2] = ("paramNameEn" :> "Tolerance") @@ ("paramValueEn" :> "1%")
                           @@ ("paramCode" :> <<"s", "d", "_", "5">>)
    /\ ret[1].properties = ("Tolerance" :> <<5, "1%">>)

\* C9: the weight of the LcscDetails is the result's weight when the result has
\* one, otherwise its productWeight divided by 1000 when it has a productWeight,
\* and None exactly when it has neither.
C9_WeightFallback ==
    BuiltDetails =>
        LET w == ret[1].weight IN
        /\ "weight" \in DOMAIN DetailResult => w = Some(DetailResult["weight"])
        /\ ("weight" \notin DOMAIN DetailResult /\ "productWeight" \in DOMAIN DetailResult)
           => /\ w # None
              /\ w[1].n * 1000 * DetailResult["productWeight"].d
                   = DetailResult["productWeight"].n * w[1].d
        /\ w = None <=> ("weight" \notin DOMAIN DetailResult
                           /\ "productWeight" \notin DOMAIN DetailResult)

\* no weight and productWeight = 1500: the weight is 1.5
C9_Witness ==
    /\ BuiltDetails
    /\ "weight" \notin DOMAIN DetailResult
    /\ "productWeight" \in DOMAIN DetailResult
    /\ DetailResult["productWeight"] = [n |-> 1500, d |-> 1]
    /\ ret[1].weight # None
    /\ ret[1].weight[1].n * 2 = 3 * ret[1].weight[1].d

IsAssetCall == op \in {"get_raw_3d_model_obj", "get_step_3d_model"}
Variant == IF op = "get_raw_3d_model_obj" THEN "raw" ELSE "step"

=============================================================================
